---- MODULE Spec2Model ----
(***************************************************************************)
(* Model of the optimized elementwise multiply kernels opt_mul_out and     *)
(* opt_mul_scalar_out (kernels/optimized/cpu/op_mul.cpp).                  *)
(*                                                                         *)
(* A behaviour is one kernel invocation: Init draws the operands, the      *)
(* (possibly stale) output tensor and the operator; the actions are the    *)
(* branches of the dispatcher.  Element values are integers; every cast    *)
(* and every multiply is computed with the width of its element type.      *)
(***************************************************************************)
EXTENDS Integers, Sequences, FiniteSets, TLC

\* Bounds of the model: largest tensor rank and largest element count of
\* an input tensor.
MaxRank == 3
MaxNumel == 4

\* ScalarType values the model draws tensors from, and the dtypes a Scalar
\* argument resolves to (utils::get_scalar_dtype).
Types == {"Bool", "Byte", "Float", "Half"}
ScalarKinds == {"Bool", "Long", "Double"}

Front(s) == SubSeq(s, 1, Len(s) - 1)
Last(s) == s[Len(s)]

\* Tensor::numel(): product of the extents (1 for a rank-0 tensor).
RECURSIVE Numel(_)
Numel(s) == IF s = <<>> THEN 1 ELSE Head(s) * Numel(Tail(s))

\* Tensor::sizes(): the shapes the model draws the inputs from.
Shapes ==
  {s \in UNION {[1..n -> 1..MaxNumel] : n \in 0..MaxRank} :
     Numel(s) <= MaxNumel}

(***************************************************************************)
(* Element types: casts and the multiply of one element type.              *)
(***************************************************************************)
isFloatingType(t) == t \in {"Float", "Half", "Double"}
isIntegralType(t, includeBool) ==
  t \in {"Byte", "Long"} \/ (includeBool /\ t = "Bool")

\* Round a non-negative integer below 4096 to the nearest value a Half
\* (11 significant bits) holds, ties to even.
HalfRound(v) ==
  IF v <= 2048 THEN v
  ELSE LET q == v \div 2
       IN IF v % 2 = 0 THEN v
          ELSE IF q % 2 = 0 THEN 2 * q ELSE 2 * (q + 1)

\* static_cast<CTYPE>(v) for a non-negative integer value v.
CastTo(t, v) ==
  CASE t = "Bool" -> (IF v = 0 THEN 0 ELSE 1)
    [] t = "Byte" -> v % 256
    [] t = "Half" -> HalfRound(v)
    [] OTHER -> v

\* x * y computed and stored in element type t.
MulIn(t, x, y) == CastTo(t, x * y)

\* Contents of the two input buffers before conversion to their dtype.
Raw(src, i) ==
  IF src = "A" THEN 3 * ((10 * i + 3) % 23) ELSE (6 * i + 47) % 53

\* a.const_data_ptr<CTYPE>()[i] of an input tensor.
Elem(t, i) == CastTo(t.dtype, Raw(t.src, i))

(***************************************************************************)
(* Shape classifier and path selector.                                     *)
(***************************************************************************)
\* Variant that never skips a leading extent: begin() itself.
arrayref_begin_no_strip(arr) == 1

\* Index (1-based) of the first extent that is not 1; Len(arr) + 1 is end().
arrayref_begin_ignoring_leading_1s(arr) ==
  IF \E i \in 1..Len(arr) : arr[i] # 1
  THEN CHOOSE i \in 1..Len(arr) :
         arr[i] # 1 /\ \A j \in 1..(i - 1) : arr[j] = 1
  ELSE Len(arr) + 1

sizes_match_ignoring_leading_1s(lhs, rhs) ==
  LET lhs_begin == arrayref_begin_ignoring_leading_1s(lhs)
      lhs_end == Len(lhs) + 1
      rhs_begin == arrayref_begin_ignoring_leading_1s(rhs)
      rhs_end == Len(rhs) + 1
  IN /\ (lhs_end - lhs_begin) = (rhs_end - rhs_begin)
     /\ \A k \in 0..(lhs_end - lhs_begin - 1) :
          lhs[lhs_begin + k] = rhs[rhs_begin + k]

select_broadcast_2d_by_1d_optimized_path(lhs, rhs) ==
  LET lhs_begin == arrayref_begin_ignoring_leading_1s(lhs.sizes)
      rhs_begin == arrayref_begin_ignoring_leading_1s(rhs.sizes)
      lhs_size == Len(lhs.sizes) + 1 - lhs_begin
      rhs_size == Len(rhs.sizes) + 1 - rhs_begin
  IN IF lhs_size = 2 /\ rhs_size = 1
        /\ lhs.sizes[lhs_begin + 1] = rhs.sizes[rhs_begin]
     THEN "kBroadcast2dBy1d"
     ELSE IF lhs_size = 1 /\ rhs_size = 2
             /\ rhs.sizes[rhs_begin + 1] = lhs.sizes[lhs_begin]
          THEN "kBroadcast2dBy1dReverseArguments"
          ELSE "kNone"

\* Variant without the test for the Half element type.
select_optimized_path_half_allowed(a, b, out) ==
  IF a.dtype # b.dtype \/ a.dtype # out.dtype
  THEN "kNone"
  ELSE IF \/ a.sizes = b.sizes
          \/ /\ Numel(a.sizes) = Numel(b.sizes)
             /\ \/ Numel(a.sizes) = Numel(out.sizes)
                \/ sizes_match_ignoring_leading_1s(a.sizes, b.sizes)
       THEN "kTreatAs1d"
       ELSE select_broadcast_2d_by_1d_optimized_path(a, b)

select_optimized_path(a, b, out) ==
  IF a.dtype # b.dtype \/ a.dtype # out.dtype \/ a.dtype = "Half"
  THEN "kNone"
  ELSE IF \/ a.sizes = b.sizes
          \/ /\ Numel(a.sizes) = Numel(b.sizes)
             /\ \/ Numel(a.sizes) = Numel(out.sizes)
                \/ sizes_match_ignoring_leading_1s(a.sizes, b.sizes)
       THEN "kTreatAs1d"
       ELSE select_broadcast_2d_by_1d_optimized_path(a, b)

(***************************************************************************)
(* Collaborators of the kernels: type promotion, cast reachability, the    *)
(* resize operation, broadcasting and the vectorized loops.                *)
(***************************************************************************)
TypeRank(t) ==
  CASE t = "Bool" -> 0 [] t = "Byte" -> 1 [] t = "Long" -> 2
    [] t = "Half" -> 3 [] t = "Float" -> 4 [] OTHER -> 5

\* promoteTypes(a, b, half_to_float): the common computation type.
promoteTypes(ta, tb, half_to_float) ==
  LET x == IF half_to_float /\ ta = "Half" THEN "Float" ELSE ta
      y == IF half_to_float /\ tb = "Half" THEN "Float" ELSE tb
  IN IF TypeRank(x) >= TypeRank(y) THEN x ELSE y

\* canCast(from, to): floating -> integral and non-bool -> bool are refused.
canCast(from, to) ==
  /\ ~(isFloatingType(from) /\ isIntegralType(to, FALSE))
  /\ ~(from # "Bool" /\ to = "Bool")

\* utils::promote_type_with_scalar(t, scalar, half_to_float).
promote_type_with_scalar(t, kind, half_to_float) ==
  LET x == IF half_to_float /\ t = "Half" THEN "Float" ELSE t
  IN CASE kind = "Double" -> (IF isFloatingType(x) THEN x ELSE "Float")
       [] kind = "Long" ->
            (IF isFloatingType(x) \/ isIntegralType(x, FALSE)
             THEN x ELSE "Long")
       [] OTHER -> x

\* resize_tensor(out, sizes) when the container accepts the new shape.
resize_tensor(out, sizes) == [out EXCEPT !.sizes = sizes]

Max(x, y) == IF x >= y THEN x ELSE y

\* Extent of dimension i (1-based, of n aligned dimensions) of shape s,
\* dimensions absent on the shorter shape being extent 1.
AlignedExt(s, n, i) ==
  IF i - (n - Len(s)) >= 1 THEN s[i - (n - Len(s))] ELSE 1

\* tensors_are_broadcastable_between(a, b)
BroadcastCompatible(s1, s2) ==
  LET n == Max(Len(s1), Len(s2))
  IN \A i \in 1..n :
       LET x == AlignedExt(s1, n, i)
           y == AlignedExt(s2, n, i)
       IN x = y \/ x = 1 \/ y = 1

\* get_broadcast_target_size(a, b)
BroadcastShape(s1, s2) ==
  LET n == Max(Len(s1), Len(s2))
  IN [i \in 1..n |->
        LET x == AlignedExt(s1, n, i)
            y == AlignedExt(s2, n, i)
        IN IF x = 1 THEN y ELSE x]

\* linearize_access_indexes: flat index into a tensor of shape s of the
\* element that output position k (flat, in oshape) reads.
RECURSIVE BroadcastIndex(_, _, _)
BroadcastIndex(k, oshape, s) ==
  IF oshape = <<>> \/ s = <<>> THEN 0
  ELSE LET d == Last(oshape)
           e == Last(s)
       IN (IF e = 1 THEN 0 ELSE k % d)
          + e * BroadcastIndex(k \div d, Front(oshape), Front(s))

\* vec::map: out[i] = x[i] * b_casted for i < n, in element type t.
vec_map(t, x, b_casted, n) ==
  [i \in 1..n |-> MulIn(t, Elem(x, i - 1), b_casted)]

\* vec::map2: out[i] = x[i] * y[i] for i < n, in element type t.
vec_map2(t, x, y, n) ==
  [i \in 1..n |-> MulIn(t, Elem(x, i - 1), Elem(y, i - 1))]

\* vec::broadcasting_map_2d_by_1d: out[r][c] = lhs[r][c] * rhs[c].
broadcasting_map_2d_by_1d(t, lhs, rhs, size, size2) ==
  [i \in 1..(size * size2) |->
     MulIn(t, Elem(lhs, i - 1), Elem(rhs, (i - 1) % size2))]

\* apply_binary_elementwise_fn with the general path's lambda: both values
\* cast to CTYPE_IN, multiplied in CTYPE_IN, cast to CTYPE_OUT.
apply_binary_elementwise_fn(a, b, common_type, out_type, oshape) ==
  [i \in 1..Numel(oshape) |->
     CastTo(out_type,
            MulIn(common_type,
                  CastTo(common_type,
                         Elem(a, BroadcastIndex(i - 1, oshape, a.sizes))),
                  CastTo(common_type,
                         Elem(b, BroadcastIndex(i - 1, oshape, b.sizes)))))]

(***************************************************************************)
(* opt_mul_out: the branches and the dispatcher.                           *)
(***************************************************************************)
\* Outcome of one branch: what the ET_KERNEL_CHECK reported, the output
\* tensor, how many multiply loops ran and whether a resize failed.
Failed(p, out, rf) ==
  [path |-> p, status |-> "InvalidArgument", out |-> out, loops |-> 0,
   resize_failed |-> rf]

Succeeded(p, out) ==
  [path |-> p, status |-> "Ok", out |-> out, loops |-> 1,
   resize_failed |-> FALSE]

\* Variant that resizes the output to the single-element operand's shape.
scalar_broadcast_resize_b(a, b, out, resize_ok) ==
  IF ~resize_ok THEN Failed("ScalarBroadcast", out, TRUE)
  ELSE LET o == resize_tensor(out, b.sizes)
           b_casted == CastTo(a.dtype, Elem(b, 0))
       IN Succeeded("ScalarBroadcast",
            [o EXCEPT !.data = vec_map(a.dtype, a, b_casted,
                                       Numel(o.sizes))])

\* Lines 152-173: b has one element and the three types agree.
scalar_broadcast(a, b, out, resize_ok) ==
  IF ~resize_ok THEN Failed("ScalarBroadcast", out, TRUE)
  ELSE LET o == resize_tensor(out, a.sizes)
           b_casted == CastTo(a.dtype, Elem(b, 0))
       IN Succeeded("ScalarBroadcast",
            [o EXCEPT !.data = vec_map(a.dtype, a, b_casted,
                                       Numel(o.sizes))])

\* Variant that hands the first operand's buffer to the loop twice.
treat_as_1d_same_buffer(a, b, out, resize_ok) ==
  IF ~resize_ok THEN Failed("kTreatAs1d", out, TRUE)
  ELSE LET o == resize_tensor(out, a.sizes)
       IN Succeeded("kTreatAs1d",
            [o EXCEPT !.data = vec_map2(out.dtype, a, a, Numel(o.sizes))])

\* Lines 180-198.
treat_as_1d(a, b, out, resize_ok) ==
  IF ~resize_ok THEN Failed("kTreatAs1d", out, TRUE)
  ELSE LET o == resize_tensor(out, a.sizes)
       IN Succeeded("kTreatAs1d",
            [o EXCEPT !.data = vec_map2(out.dtype, a, b, Numel(o.sizes))])

\* Variant that reads the row and column counts from the two leading
\* dimensions instead of the two trailing ones.
broadcast_2d_by_1d_leading_dims(selected, a, b, out, resize_ok) ==
  LET lhs == IF selected = "kBroadcast2dBy1dReverseArguments" THEN b ELSE a
      rhs == IF selected = "kBroadcast2dBy1dReverseArguments" THEN a ELSE b
  IN IF ~resize_ok THEN Failed(selected, out, TRUE)
     ELSE LET o == resize_tensor(out, lhs.sizes)
          IN Succeeded(selected,
               [o EXCEPT !.data =
                  broadcasting_map_2d_by_1d(out.dtype, lhs, rhs,
                    lhs.sizes[1], lhs.sizes[2])])

\* Lines 199-230.
broadcast_2d_by_1d(selected, a, b, out, resize_ok) ==
  LET lhs == IF selected = "kBroadcast2dBy1dReverseArguments" THEN b ELSE a
      rhs == IF selected = "kBroadcast2dBy1dReverseArguments" THEN a ELSE b
  IN IF ~resize_ok THEN Failed(selected, out, TRUE)
     ELSE LET o == resize_tensor(out, lhs.sizes)
          IN Succeeded(selected,
               [o EXCEPT !.data =
                  broadcasting_map_2d_by_1d(out.dtype, lhs, rhs,
                    lhs.sizes[Len(lhs.sizes) - 1],
                    lhs.sizes[Len(lhs.sizes)])])

\* Variant without the canCast check.
general_path_unchecked(a, b, out, resize_ok) ==
  LET common_type == promoteTypes(a.dtype, b.dtype, TRUE)
  IN IF ~BroadcastCompatible(a.sizes, b.sizes)
     THEN Failed("kNone", out, FALSE)
     ELSE IF ~resize_ok THEN Failed("kNone", out, TRUE)
     ELSE LET o == resize_tensor(out, BroadcastShape(a.sizes, b.sizes))
          IN Succeeded("kNone",
               [o EXCEPT !.data =
                  apply_binary_elementwise_fn(a, b, common_type,
                                              out.dtype, o.sizes)])

\* Lines 231-262.
general_path(a, b, out, resize_ok) ==
  LET common_type == promoteTypes(a.dtype, b.dtype, TRUE)
  IN IF ~canCast(common_type, out.dtype) THEN Failed("kNone", out, FALSE)
     ELSE IF ~BroadcastCompatible(a.sizes, b.sizes)
          THEN Failed("kNone", out, FALSE)
          ELSE IF ~resize_ok THEN Failed("kNone", out, TRUE)
          ELSE LET o == resize_tensor(out, BroadcastShape(a.sizes, b.sizes))
               IN Succeeded("kNone",
                    [o EXCEPT !.data =
                       apply_binary_elementwise_fn(a, b, common_type,
                                                   out.dtype, o.sizes)])

\* Variant in which the test of a.numel() is not the else of the test of
\* b.numel(): a call falling out of the scalar branch swaps as well.
Dispatch_swap_not_else(a, b, out) ==
  IF Numel(b.sizes) = 1 /\ a.dtype = b.dtype /\ a.dtype = out.dtype
     /\ a.dtype # "Half"
  THEN "ScalarBroadcast"
  ELSE IF Numel(a.sizes) = 1
       THEN "Swap"
       ELSE select_optimized_path(a, b, out)

\* Lines 151-179 and the if/else chain on the selected path: the branch
\* of opt_mul_out that a call with these arguments takes.
Dispatch(a, b, out) ==
  IF Numel(b.sizes) = 1
  THEN IF a.dtype = b.dtype /\ a.dtype = out.dtype /\ a.dtype # "Half"
       THEN "ScalarBroadcast"
       ELSE select_optimized_path(a, b, out)
  ELSE IF Numel(a.sizes) = 1
       THEN "Swap"
       ELSE select_optimized_path(a, b, out)

\* The whole call as a function of its arguments.
RECURSIVE opt_mul_out(_, _, _, _)
opt_mul_out(a, b, out, resize_ok) ==
  LET d == Dispatch(a, b, out)
  IN CASE d = "Swap" -> opt_mul_out(b, a, out, resize_ok)
       [] d = "ScalarBroadcast" -> scalar_broadcast(a, b, out, resize_ok)
       [] d = "kTreatAs1d" -> treat_as_1d(a, b, out, resize_ok)
       [] d = "kNone" -> general_path(a, b, out, resize_ok)
       [] OTHER -> broadcast_2d_by_1d(d, a, b, out, resize_ok)

(***************************************************************************)
(* opt_mul_scalar_out                                                      *)
(***************************************************************************)
Aborted(out) ==
  [path |-> "mul.Scalar_out", status |-> "Abort", out |-> out, loops |-> 0,
   resize_failed |-> FALSE]

\* Lines 267-331.  b is the Scalar: b.dtype is its resolved dtype and
\* element 0 of its source its value.
opt_mul_scalar_out(a, b, out, resize_ok) ==
  LET promoted == promote_type_with_scalar(a.dtype, b.dtype, FALSE)
      common_type == IF promoted = "Half" THEN "Float" ELSE promoted
  IN IF promoted # out.dtype THEN Aborted(out)
     ELSE IF ~resize_ok
          THEN [Aborted(out) EXCEPT !.resize_failed = TRUE]
          ELSE LET o == resize_tensor(out, a.sizes)
                   b_casted == CastTo(common_type, Elem(b, 0))
               IN IF a.dtype = common_type /\ a.dtype = out.dtype
                     /\ a.dtype # "Half"
                  THEN Succeeded("mul.Scalar_out",
                         [o EXCEPT !.data =
                            vec_map(a.dtype, a, b_casted, Numel(o.sizes))])
                  ELSE Succeeded("mul.Scalar_out",
                         [o EXCEPT !.data =
                            [i \in 1..Numel(a.sizes) |->
                               CastTo(out.dtype,
                                 CastTo(common_type, Elem(a, i - 1))
                                 * b_casted)]])

(***************************************************************************)
(* State of one invocation.                                                *)
(*   op            the operator invoked                                    *)
(*   pc            "call" while a call of the kernel is at its entry,      *)
(*                 "done" once it has returned to the caller               *)
(*   a, b          the operands of the current call (b is the Scalar for   *)
(*                 mul.Scalar_out)                                         *)
(*   out           the output tensor                                       *)
(*   swaps         number of recursive calls with swapped operands         *)
(*   path          the branch that handled the call                        *)
(*   loops         number of multiply loops executed                       *)
(*   status        "Running", then what the caller observes                *)
(*   resize_failed whether a resize of the output was refused              *)
(***************************************************************************)
VARIABLES op, pc, a, b, out, swaps, path, loops, status, resize_failed

vars == <<op, pc, a, b, out, swaps, path, loops, status, resize_failed>>

Tensor(sizes, dtype, src) == [sizes |-> sizes, dtype |-> dtype, src |-> src]

\* The output as the caller passes it: any dtype, a stale shape, contents
\* not yet written.
OutTensor(sizes, dtype) == [sizes |-> sizes, dtype |-> dtype, data |-> <<>>]

Init ==
  /\ pc = "call"
  /\ swaps = 0
  /\ path = "none"
  /\ loops = 0
  /\ status = "Running"
  /\ resize_failed = FALSE
  /\ \/ /\ op = "mul.out"
        /\ \E sa \in Shapes, sb \in Shapes, ta \in Types, tb \in Types :
             /\ a = Tensor(sa, ta, "A")
             /\ b = Tensor(sb, tb, "B")
             /\ \E n \in {0, Numel(sa)}, t \in Types :
                  out = OutTensor(<<n>>, t)
     \/ /\ op = "mul.Scalar_out"
        /\ \E sa \in Shapes, ta \in Types, k \in ScalarKinds,
              t \in Types \cup {"Long"} :
             /\ a = Tensor(sa, ta, "A")
             /\ b = Tensor(<<>>, k, "B")
             /\ out = OutTensor(<<0>>, t)

\* The call returns with outcome r.
Return(r) ==
  /\ pc' = "done"
  /\ path' = r.path
  /\ status' = r.status
  /\ out' = r.out
  /\ loops' = loops + r.loops
  /\ resize_failed' = r.resize_failed
  /\ UNCHANGED <<op, a, b, swaps>>

ScalarBroadcast ==
  /\ pc = "call" /\ op = "mul.out"
  /\ Dispatch(a, b, out) = "ScalarBroadcast"
  /\ \E resize_ok \in BOOLEAN : Return(scalar_broadcast(a, b, out, resize_ok))

\* Line 176: return opt_mul_out(ctx, b, a, out).
SwapOperands ==
  /\ pc = "call" /\ op = "mul.out"
  /\ Dispatch(a, b, out) = "Swap"
  /\ a' = b
  /\ b' = a
  /\ swaps' = swaps + 1
  /\ UNCHANGED <<op, pc, out, path, loops, status, resize_failed>>

TreatAs1d ==
  /\ pc = "call" /\ op = "mul.out"
  /\ Dispatch(a, b, out) = "kTreatAs1d"
  /\ \E resize_ok \in BOOLEAN : Return(treat_as_1d(a, b, out, resize_ok))

Broadcast2dBy1d ==
  /\ pc = "call" /\ op = "mul.out"
  /\ Dispatch(a, b, out)
       \in {"kBroadcast2dBy1d", "kBroadcast2dBy1dReverseArguments"}
  /\ \E resize_ok \in BOOLEAN :
       Return(broadcast_2d_by_1d(Dispatch(a, b, out), a, b, out, resize_ok))

GeneralPath ==
  /\ pc = "call" /\ op = "mul.out"
  /\ Dispatch(a, b, out) = "kNone"
  /\ \E resize_ok \in BOOLEAN : Return(general_path(a, b, out, resize_ok))

MulScalarOut ==
  /\ pc = "call" /\ op = "mul.Scalar_out"
  /\ \E resize_ok \in BOOLEAN :
       Return(opt_mul_scalar_out(a, b, out, resize_ok))

Next ==
  \/ ScalarBroadcast
  \/ SwapOperands
  \/ TreatAs1d
  \/ Broadcast2dBy1d
  \/ GeneralPath
  \/ MulScalarOut

Spec == Init /\ [][Next]_vars

TypeOK ==
  /\ pc \in {"call", "done"}
  /\ status \in {"Running", "Ok", "InvalidArgument", "Abort"}
  /\ swaps \in Nat
  /\ loops \in Nat

(***************************************************************************)
(* Properties.                                                             *)
(***************************************************************************)
\* The operands as the caller passed them (the swap exchanges a and b).
FirstOperand == IF swaps % 2 = 0 THEN a ELSE b
SecondOperand == IF swaps % 2 = 0 THEN b ELSE a

Homogeneous == a.dtype = b.dtype /\ a.dtype = out.dtype /\ a.dtype # "Half"

FastPaths ==
  {"ScalarBroadcast", "kTreatAs1d", "kBroadcast2dBy1d",
   "kBroadcast2dBy1dReverseArguments"}

Returned == pc = "done" /\ op = "mul.out"

\* What the general path computes for the caller's operands.
GeneralResult == general_path(FirstOperand, SecondOperand, out, TRUE)

\* C1: a fast strategy of opt_mul_out runs only when a, b and out have one
\* element type and it is not Half; otherwise select_optimized_path
\* returns kNone and the call is handled by the general path, whatever the
\* shapes (single-element operands included).
C1_FastPathsNeedOneType ==
  op = "mul.out" =>
    /\ (pc = "done" /\ path \in FastPaths) => Homogeneous
    /\ ~Homogeneous =>
         /\ select_optimized_path(a, b, out) = "kNone"
         /\ select_optimized_path(b, a, out) = "kNone"
         /\ pc = "done" => path = "kNone"

C1_Witness ==
  /\ Returned /\ path = "kNone" /\ status = "Ok"
  /\ a.dtype = "Half" /\ b.dtype = "Half" /\ out.dtype = "Half"
  /\ Numel(b.sizes) = 1 /\ Numel(a.sizes) > 1

\* C2: for operands of one shape and one non-Half type, with an output of
\* that type, the values written are those of the general path, and the
\* call is handled by the scalar shortcut (one element) or Flatten1D.
C2_SameShapeEqualsGeneral ==
  (Returned /\ status = "Ok" /\ Homogeneous /\ a.sizes = b.sizes) =>
    /\ path = (IF Numel(a.sizes) = 1 THEN "ScalarBroadcast"
               ELSE "kTreatAs1d")
    /\ GeneralResult.status = "Ok"
    /\ out.data = GeneralResult.out.data

C2_Witness ==
  /\ Returned /\ status = "Ok" /\ Homogeneous /\ a.sizes = b.sizes
  /\ path = "kTreatAs1d" /\ a.dtype = "Byte" /\ Len(out.data) >= 4

\* C3: when the output type cannot be cast to from the common type
\* promoteTypes(a_type, b_type, half_to_float), the call fails with
\* InvalidArgument and no multiply loop runs, whatever the shapes.
C3_UnreachableCastFails ==
  (Returned /\ ~canCast(promoteTypes(a.dtype, b.dtype, TRUE), out.dtype)) =>
    /\ status = "InvalidArgument"
    /\ loops = 0
    /\ out.data = <<>>

C3_Witness ==
  /\ Returned /\ swaps = 1 /\ status = "InvalidArgument"
  /\ ~canCast(promoteTypes(a.dtype, b.dtype, TRUE), out.dtype)

\* C4: whenever the resize of the output fails, the caller gets an
\* InvalidArgument error, in opt_mul_out and in opt_mul_scalar_out.
C4_ResizeFailureIsInvalidArgument ==
  (pc = "done" /\ resize_failed) => status = "InvalidArgument"

\* Shape without its contiguous prefix of extent-1 dimensions.
RECURSIVE Strip(_)
Strip(s) ==
  IF s = <<>> THEN <<>>
  ELSE IF Head(s) = 1 THEN Strip(Tail(s)) ELSE s

\* The priority rule of the shape classifier for two shapes and an output
\* element count.
PriorityRule(sa, sb, n) ==
  LET la == Strip(sa)
      lb == Strip(sb)
  IN IF sa = sb THEN "kTreatAs1d"
     ELSE IF Numel(sa) = Numel(sb) /\ (n = Numel(sa) \/ la = lb)
          THEN "kTreatAs1d"
          ELSE IF Len(la) = 2 /\ Len(lb) = 1 /\ la[2] = lb[1]
               THEN "kBroadcast2dBy1d"
               ELSE IF Len(la) = 1 /\ Len(lb) = 2 /\ lb[2] = la[1]
                    THEN "kBroadcast2dBy1dReverseArguments"
                    ELSE "kNone"

\* C5: for one non-Half element type, select_optimized_path returns the
\* result of the priority rule for every pair of shapes and every output
\* element count; a shape that strips to rank 0 is never the vector of a
\* row broadcast.
C5_SelectFollowsPriorityRule ==
  (op = "mul.out" /\ Homogeneous) =>
    \A n \in 0..(Max(Numel(a.sizes), Numel(b.sizes)) + 1) :
      LET sel == select_optimized_path(a, b, [out EXCEPT !.sizes = <<n>>])
      IN /\ sel = PriorityRule(a.sizes, b.sizes, n)
         /\ Strip(b.sizes) = <<>> => sel # "kBroadcast2dBy1d"
         /\ Strip(a.sizes) = <<>> => sel # "kBroadcast2dBy1dReverseArguments"

C5_Witness ==
  /\ Returned /\ path = "kBroadcast2dBy1dReverseArguments"
  /\ Len(b.sizes) = 3 /\ Len(a.sizes) = 1

\* Trailing-aligned broadcast of two shapes.
RECURSIVE TrailingAligned(_, _)
TrailingAligned(s1, s2) ==
  IF s1 = <<>> THEN s2
  ELSE IF s2 = <<>> THEN s1
  ELSE Append(TrailingAligned(Front(s1), Front(s2)),
              Max(Last(s1), Last(s2)))

\* C6: after a successful opt_mul_out the output has the shape declared
\* for the strategy that ran: the tensor operand's for the scalar
\* shortcut (also through the swap), the first operand's for Flatten1D,
\* the matrix operand's for the row broadcasts, the broadcast shape for
\* the general path.
C6_OutputShapeOfStrategy ==
  (Returned /\ status = "Ok") =>
    LET sa == FirstOperand.sizes
        sb == SecondOperand.sizes
    IN CASE path = "ScalarBroadcast" ->
              /\ out.sizes = (IF Numel(sb) = 1 THEN sa ELSE sb)
              /\ (Numel(sa) # 1 \/ Numel(sb) # 1) => Numel(out.sizes) # 1
         [] path = "kTreatAs1d" -> out.sizes = sa
         [] path = "kBroadcast2dBy1d" ->
              out.sizes = sa /\ Len(Strip(sa)) = 2
         [] path = "kBroadcast2dBy1dReverseArguments" ->
              out.sizes = sb /\ Len(Strip(sb)) = 2
         [] path = "kNone" -> out.sizes = TrailingAligned(sa, sb)
         [] OTHER -> FALSE

C6_Witness ==
  /\ Returned /\ status = "Ok" /\ path = "ScalarBroadcast" /\ swaps = 1
  /\ Len(out.sizes) >= 2 /\ Numel(out.sizes) >= 4

\* C7: a row broadcast of a matrix that strips to [R, C] and a vector that
\* strips to [C] writes R*C values, the one at row i, column j being
\* matrix[i][j] * vector[j]; for both argument orders and with leading
\* extent-1 dimensions on either operand.
C7_RowBroadcastValues ==
  (Returned /\ status = "Ok"
     /\ path \in {"kBroadcast2dBy1d", "kBroadcast2dBy1dReverseArguments"}) =>
    LET matrix == IF path = "kBroadcast2dBy1d" THEN FirstOperand
                  ELSE SecondOperand
        vector == IF path = "kBroadcast2dBy1d" THEN SecondOperand
                  ELSE FirstOperand
        R == Strip(matrix.sizes)[1]
        C == Strip(matrix.sizes)[2]
    IN /\ Strip(vector.sizes) = <<C>>
       /\ Len(out.data) = R * C
       /\ \A i \in 0..(R - 1), j \in 0..(C - 1) :
            out.data[i * C + j + 1] =
              MulIn(out.dtype, Elem(matrix, i * C + j), Elem(vector, j))

C7_Witness ==
  /\ Returned /\ status = "Ok" /\ path = "kBroadcast2dBy1d"
  /\ Len(a.sizes) = 3 /\ Len(b.sizes) = 2 /\ a.dtype = "Byte"

\* C8: for operands whose shapes are broadcast-compatible, whenever
\* opt_mul_out(A, B) and opt_mul_out(B, A) both succeed they write the same
\* values in flat order.
C8_Commutative ==
  (Returned /\ status = "Ok"
     /\ BroadcastCompatible(FirstOperand.sizes, SecondOperand.sizes)) =>
    \A n \in {0, Numel(a.sizes), Numel(b.sizes)} :
      LET r == opt_mul_out(SecondOperand, FirstOperand,
                           OutTensor(<<n>>, out.dtype), TRUE)
      IN r.status = "Ok" => r.out.data = out.data

\* C9: a call swaps its operands at most once and the call made by the
\* swap does not swap again; every call at its entry takes exactly one
\* branch, so it returns; a returned call ran exactly one multiply loop or
\* failed with InvalidArgument having run none; a call made by the swap
\* is handled by the scalar shortcut or by the general path.
C9_SingleSelection ==
  op = "mul.out" =>
    /\ swaps <= 1
    /\ (pc = "call" /\ swaps = 1) => Dispatch(a, b, out) # "Swap"
    /\ pc = "call" =>
         Dispatch(a, b, out) \in FastPaths \cup {"kNone", "Swap"}
    /\ pc = "done" =>
         /\ path \in FastPaths \cup {"kNone"}
         /\ \/ status = "Ok" /\ loops = 1
            \/ status = "InvalidArgument" /\ loops = 0
         /\ swaps = 1 => path \in {"ScalarBroadcast", "kNone"}

C9_Witness ==
  /\ Returned /\ swaps = 1 /\ path = "kNone" /\ status = "Ok" /\ loops = 1

\* C10: whenever a fast strategy handled the call, the two input shapes
\* are broadcast-compatible and the values written, in flat order, are the
\* values the general path writes for the same inputs.
C10_FastPathsRefineGeneral ==
  (Returned /\ status = "Ok" /\ path \in FastPaths) =>
    /\ BroadcastCompatible(FirstOperand.sizes, SecondOperand.sizes)
    /\ out.data = GeneralResult.out.data

====
